---------------------------- MODULE Spec2Model ----------------------------
(***************************************************************************)
(* A model of duplicate-finder-ai:                                         *)
(*   - the exact (hash based) DuplicateDetector of                         *)
(*     src/organized/document/duplicate_detector.py together with the      *)
(*     FileUtils primitives it calls (src/utils/file_utils.py) and the     *)
(*     operations table of the Logger (src/utils/logger.py);               *)
(*   - the similarity DuplicateDetector of src/duplicate_detector.py;      *)
(*   - the Logger as a store: its two tables and its two queries;          *)
(*   - FileClassifier.classify_file (src/organized/document/model.py);     *)
(*   - FileOrganizer.organize_files                                        *)
(*     (src/organized/document/file_organizer.py).                         *)
(*                                                                         *)
(* Every call is one behaviour: Init draws the call's arguments and the    *)
(* files on disk, the actions run the call.  Values the code reads from    *)
(* the environment while it runs (modification times, sizes, whether an    *)
(* os.remove succeeds) are drawn when the code reads them.                 *)
(*                                                                         *)
(* Idealisations: a cryptographic digest is collision free on the          *)
(* contents considered (HashOf is injective); floating point cosine is     *)
(* exact rational arithmetic, and so is the success rate of a report; the  *)
(* Logger's database is available, except in organize_files, whose own     *)
(* log_operation calls may raise.                                          *)
(***************************************************************************)
EXTENDS Integers, Sequences, FiniteSets, TLC

VARIABLES
    disk,           \* the files: path -> [content, state, text]
    args,           \* the arguments of the call being modelled
    pc,             \* where the call is: "start", "loop", "returned", "raised"
    locals,         \* the local variables of the running call
    ret,            \* what the call returned, or the exception it raised
    oplog,          \* Logger: rows of the operations table, in insertion order
    file_metadata   \* Logger: the rows of the file_metadata table

vars == <<disk, args, pc, locals, ret, oplog, file_metadata>>

-----------------------------------------------------------------------------
(* Bounds *)

NumScanned == 3      \* files found by list_files in a find_duplicates call
NumContents == 2     \* distinct byte strings a file may hold
MaxGroups == 2       \* groups in the mapping handed to remove_duplicates
MaxPaths == 4        \* paths listed in that mapping, over all its groups
MaxStamp == 2        \* modification times are 1..MaxStamp, sizes 0..MaxStamp-1
NumCompared == 3     \* files handed to the similarity find_duplicates

Contents == 1..NumContents
None == "None"

-----------------------------------------------------------------------------
(* Helpers on sequences and on dicts.  A Python dict is modelled as a      *)
(* sequence of [key, paths] records in insertion order.                    *)

Range(s) == {s[i] : i \in DOMAIN s}

RECURSIVE SumSeq(_)
SumSeq(s) == IF s = <<>> THEN 0 ELSE s[1] + SumSeq(Tail(s))

HasKey(d, k) == \E i \in DOMAIN d : d[i].key = k

\* hash_map[k].append(p) on a defaultdict(list)
DictAppend(d, k, p) ==
    IF HasKey(d, k)
    THEN [i \in DOMAIN d |->
            IF d[i].key = k THEN [d[i] EXCEPT !.paths = Append(@, p)] ELSE d[i]]
    ELSE Append(d, [key |-> k, paths |-> <<p>>])

-----------------------------------------------------------------------------
(* Logger (src/utils/logger.py) *)

\* an INSERT OR REPLACE keyed by source_path: the rows of the path are dropped
log_operation_replaces_path(log, operation_type, source_path, status, details) ==
    Append(SelectSeq(log, LAMBDA r : r.source_path # source_path),
           [operation_type |-> operation_type,
            source_path |-> source_path,
            status |-> status,
            details |-> details])

\* log_operation: INSERT INTO operations
log_operation(log, operation_type, source_path, status, details) ==
    Append(log, [operation_type |-> operation_type,
                 source_path |-> source_path,
                 status |-> status,
                 details |-> details])

\* an INSERT that keeps the rows already stored for the path
log_file_metadata_plain_insert(meta, file_path, file_hash) ==
    meta \cup {[file_path |-> file_path, file_hash |-> file_hash]}

\* log_file_metadata: INSERT OR REPLACE INTO file_metadata (file_path UNIQUE).
\* The table is a set of rows; REPLACE deletes the rows that conflict on
\* file_path and inserts the new row.  file_hash stands for the values of
\* the call (file_hash, file_type, file_size, last_modified, created_at),
\* which the statement writes to their columns as given.
log_file_metadata(meta, file_path, file_hash) ==
    {r \in meta : r.file_path # file_path}
        \cup {[file_path |-> file_path, file_hash |-> file_hash]}

-----------------------------------------------------------------------------
(* FileUtils (src/utils/file_utils.py) *)

\* the algorithms getattr(hashlib, hash_type) finds
HashAlgorithms == {"md5", "sha256"}

\* the digest of a byte string: a function of the bytes and the algorithm
HashOf(hash_type, content) == <<hash_type, content>>

\* calculate_file_hash raises when hashlib has no such algorithm or the
\* file cannot be opened and read
HashRaises(d, p, hash_type) ==
    \/ hash_type \notin HashAlgorithms
    \/ d[p].state \in {"unreadable", "gone"}

calculate_file_hash(d, p, hash_type) == HashOf(hash_type, d[p].content)

\* get_file_metadata raises when os.stat or magic.from_file does
MetadataRaises(d, p) == d[p].state \in {"nometa", "gone"}

-----------------------------------------------------------------------------
(* DuplicateDetector.find_duplicates                                       *)
(* (src/organized/document/duplicate_detector.py)                          *)

\* one iteration of "for file_path in files": st = [hash_map, log, meta]
HashOneFile(st, d, p, hash_type) ==
    IF HashRaises(d, p, hash_type)
    THEN [st EXCEPT !.log = log_operation(@, "hash_calculation", p, "failure", "hash")]
    ELSE LET file_hash == calculate_file_hash(d, p, hash_type)
             appended == [st EXCEPT !.hash_map = DictAppend(@, file_hash, p)]
         IN  IF MetadataRaises(d, p)
             THEN [appended EXCEPT
                     !.log = log_operation(@, "hash_calculation", p, "failure", "metadata")]
             ELSE [appended EXCEPT !.meta = log_file_metadata(@, p, file_hash)]

RECURSIVE HashFiles(_, _, _, _)
HashFiles(st, d, files, hash_type) ==
    IF files = <<>> THEN st
    ELSE HashFiles(HashOneFile(st, d, Head(files), hash_type), d, Tail(files), hash_type)

\* a filter that is off by one: keeps the groups of a single file too
FilterDuplicatesKeepsSingles(hash_map) == SelectSeq(hash_map, LAMBDA e : Len(e.paths) > 0)

\* return {k: v for k, v in hash_map.items() if len(v) > 1}
FilterDuplicates(hash_map) == SelectSeq(hash_map, LAMBDA e : Len(e.paths) > 1)

ScannedPaths == 1..NumScanned

\* list_files: the paths in the order os.walk yields them
list_files == [i \in ScannedPaths |-> i]

FindStates == {"ok", "unreadable", "nometa"}

InitFind ==
    /\ disk \in [ScannedPaths -> [content : Contents, state : FindStates, text : {FALSE}]]
    /\ args \in [op : {"find_duplicates"}, hash_type : {"md5", "crc32"}]
    /\ pc = "start"
    /\ locals = [hash_map |-> <<>>]
    /\ ret = None
    /\ oplog = <<>>
    /\ file_metadata = {}

find_duplicates ==
    /\ pc = "start"
    /\ args.op = "find_duplicates"
    /\ LET st == HashFiles([hash_map |-> <<>>, log |-> oplog, meta |-> file_metadata],
                           disk, list_files, args.hash_type)
       IN  /\ locals' = [hash_map |-> st.hash_map]
           /\ oplog' = st.log
           /\ file_metadata' = st.meta
           /\ ret' = FilterDuplicates(st.hash_map)
    /\ pc' = "returned"
    /\ UNCHANGED <<disk, args>>

NextFind == find_duplicates

SpecFind == InitFind /\ [][NextFind]_vars

-----------------------------------------------------------------------------
(* DuplicateDetector.remove_duplicates                                     *)
(* (src/organized/document/duplicate_detector.py)                          *)

Strategies == {"newest", "oldest", "largest", "smallest"}

\* os.path.getmtime values and os.path.getsize values
MTimes == 1..MaxStamp
Sizes == 0..(MaxStamp - 1)

\* the values the sort key of a strategy reads
KeyValues(keep_strategy) ==
    IF keep_strategy \in {"newest", "oldest"} THEN MTimes ELSE Sizes

\* reverse=True for 'newest' and 'largest'
Reverse(keep_strategy) == keep_strategy \in {"newest", "largest"}

\* s without its i-th element
DropAt(s, i) == [j \in 1..(Len(s) - 1) |-> IF j < i THEN s[j] ELSE s[j + 1]]

\* the index sorted() emits first: the first element, in list order, with
\* the least key (the greatest under reverse=True; the sort is stable)
FirstExtreme(s, key, reverse) ==
    CHOOSE i \in DOMAIN s :
        /\ \A j \in DOMAIN s :
              IF reverse THEN key[s[j]] <= key[s[i]] ELSE key[s[j]] >= key[s[i]]
        /\ \A j \in 1..(i - 1) : key[s[j]] # key[s[i]]

RECURSIVE StableSort(_, _, _)
StableSort(s, key, reverse) ==
    IF s = <<>> THEN <<>>
    ELSE LET i == FirstExtreme(s, key, reverse)
         IN  <<s[i]>> \o StableSort(DropAt(s, i), key, reverse)

RevSeq(s) == [i \in DOMAIN s |-> s[Len(s) + 1 - i]]

\* a descending sort written as the ascending sort read backwards: among
\* equal keys the last element comes first
sortedReversedAfterwards(file_paths, key, reverse) ==
    IF reverse THEN RevSeq(StableSort(file_paths, key, FALSE))
    ELSE StableSort(file_paths, key, FALSE)

\* sorted(file_paths, key=..., reverse=...)
sorted(file_paths, key, reverse) == StableSort(file_paths, key, reverse)

\* a removal step that records the path before os.remove has succeeded
RemoveOneRecordsFirst(st, f, keep_file, locked) ==
    IF f \in locked
    THEN [st EXCEPT !.removed_files = Append(@, f),
                    !.log = log_operation(@, "duplicate_removal", f, "failure", keep_file)]
    ELSE [st EXCEPT !.disk[f].state = "gone",
                    !.removed_files = Append(@, f),
                    !.log = log_operation(@, "duplicate_removal", f, "success", keep_file)]

\* one iteration of "for file_to_remove in sorted_files[1:]":
\* st = [disk, removed_files, log]; os.remove raises for the files in locked
RemoveOne(st, f, keep_file, locked) ==
    IF f \in locked
    THEN [st EXCEPT !.log = log_operation(@, "duplicate_removal", f, "failure", keep_file)]
    ELSE [st EXCEPT !.disk[f].state = "gone",
                    !.removed_files = Append(@, f),
                    !.log = log_operation(@, "duplicate_removal", f, "success", keep_file)]

RECURSIVE RemoveRest(_, _, _, _)
RemoveRest(st, rest, keep_file, locked) ==
    IF rest = <<>> THEN st
    ELSE RemoveRest(RemoveOne(st, Head(rest), keep_file, locked),
                    Tail(rest), keep_file, locked)

RemovePaths == 1..MaxPaths

\* the sizes of the groups of a mapping: up to MaxGroups groups (an empty
\* list included) that list at most MaxPaths paths together
Layouts ==
    UNION { {sizes \in [1..n -> 0..MaxPaths] : SumSeq(sizes) <= MaxPaths} :
            n \in 0..MaxGroups }

\* the j-th member of the g-th group: the groups list the paths 1, 2, ...
\* in turn, so no path is listed twice
Member(sizes, g, j) == SumSeq(SubSeq(sizes, 1, g - 1)) + j

\* the mappings handed to remove_duplicates and analyze_duplicates
Mappings ==
    { [g \in DOMAIN sizes |->
          [key |-> HashOf("md5", g),
           paths |-> [j \in 1..sizes[g] |-> Member(sizes, g, j)]]] :
      sizes \in Layouts }

\* the group of the mapping that lists p, 0 when none does
GroupOf(duplicates, p) ==
    IF \E g \in DOMAIN duplicates : p \in Range(duplicates[g].paths)
    THEN CHOOSE g \in DOMAIN duplicates : p \in Range(duplicates[g].paths)
    ELSE 0

\* the files of one group hold the same bytes
InitRemove ==
    /\ args \in [op : {"remove_duplicates"}, duplicates : Mappings,
                 keep_strategy : Strategies \cup {"random"}]
            \cup [op : {"analyze_duplicates"}, duplicates : Mappings,
                  keep_strategy : {"newest"}]
    /\ disk = [p \in RemovePaths |->
                 [content |-> GroupOf(args.duplicates, p), state |-> "ok", text |-> FALSE]]
    /\ pc = "start"
    /\ locals = [gi |-> 1, removed_files |-> <<>>, sorted_files |-> <<>>,
                 keys |-> <<>>, kept |-> {}]
    /\ ret = None
    /\ oplog = <<>>
    /\ file_metadata = {}

InRemoveLoop ==
    /\ args.op = "remove_duplicates"
    /\ pc \in {"start", "loop"}
    /\ locals.gi <= Len(args.duplicates)

\* if len(file_paths) <= 1: continue
RemoveSkipGroup ==
    /\ InRemoveLoop
    /\ Len(args.duplicates[locals.gi].paths) <= 1
    /\ locals' = [locals EXCEPT !.gi = @ + 1, !.sorted_files = <<>>, !.keys = <<>>]
    /\ pc' = "loop"
    /\ UNCHANGED <<disk, args, ret, oplog, file_metadata>>

\* else: raise ValueError(f"Unknown keep strategy: {keep_strategy}")
RemoveUnknownStrategy ==
    /\ InRemoveLoop
    /\ Len(args.duplicates[locals.gi].paths) > 1
    /\ args.keep_strategy \notin Strategies
    /\ pc' = "raised"
    /\ ret' = "ValueError"
    /\ UNCHANGED <<disk, args, locals, oplog, file_metadata>>

\* sorted() reads the key of every member; os.path.getmtime / getsize raise
\* OSError for a member that no longer exists, outside any try block
RemoveSortRaises ==
    /\ InRemoveLoop
    /\ Len(args.duplicates[locals.gi].paths) > 1
    /\ args.keep_strategy \in Strategies
    /\ \E missing \in Range(args.duplicates[locals.gi].paths) :
          disk' = [disk EXCEPT ![missing].state = "gone"]
    /\ pc' = "raised"
    /\ ret' = "OSError"
    /\ UNCHANGED <<args, locals, oplog, file_metadata>>

\* the group is sorted, its first file kept and the rest removed
RemoveGroup ==
    /\ InRemoveLoop
    /\ Len(args.duplicates[locals.gi].paths) > 1
    /\ args.keep_strategy \in Strategies
    /\ LET file_paths == args.duplicates[locals.gi].paths
       IN  \E key \in [Range(file_paths) -> KeyValues(args.keep_strategy)],
              locked \in SUBSET Range(file_paths) :
              LET sorted_files == sorted(file_paths, key, Reverse(args.keep_strategy))
                  keep_file == sorted_files[1]
                  st == RemoveRest([disk |-> disk,
                                    removed_files |-> locals.removed_files,
                                    log |-> oplog],
                                   Tail(sorted_files), keep_file, locked)
              IN  /\ locked \subseteq Range(Tail(sorted_files))
                  /\ disk' = st.disk
                  /\ oplog' = st.log
                  /\ locals' = [gi |-> locals.gi + 1,
                                removed_files |-> st.removed_files,
                                sorted_files |-> sorted_files,
                                keys |-> key,
                                kept |-> locals.kept \cup {keep_file}]
    /\ pc' = "loop"
    /\ UNCHANGED <<args, ret, file_metadata>>

\* return removed_files
RemoveReturn ==
    /\ args.op = "remove_duplicates"
    /\ pc \in {"start", "loop"}
    /\ locals.gi > Len(args.duplicates)
    /\ pc' = "returned"
    /\ ret' = locals.removed_files
    /\ UNCHANGED <<disk, args, locals, oplog, file_metadata>>

remove_duplicates ==
    \/ RemoveSkipGroup
    \/ RemoveUnknownStrategy
    \/ RemoveSortRaises
    \/ RemoveGroup
    \/ RemoveReturn

-----------------------------------------------------------------------------
(* DuplicateDetector.analyze_duplicates and _get_duplicate_types           *)

\* FileUtils.get_file_type: magic.from_file(file_path, mime=True)
get_file_type(d, p) == IF d[p].text THEN "text/plain" ELSE "application/octet-stream"

\* sum(len(files) - 1 for files in duplicates.values())
RECURSIVE total_duplicates(_)
total_duplicates(duplicates) ==
    IF duplicates = <<>> THEN 0
    ELSE (Len(Head(duplicates).paths) - 1) + total_duplicates(Tail(duplicates))

\* a space estimate that counts every member of a group, the kept one too
total_space_counts_kept(duplicates, size) ==
    SumSeq([g \in DOMAIN duplicates |-> size[g] * Len(duplicates[g].paths)])

\* sum(os.path.getsize(files[0]) * (len(files) - 1) for files in ...);
\* size[g] is what getsize returns for the first file of the g-th group
total_space(duplicates, size) ==
    SumSeq([g \in DOMAIN duplicates |-> size[g] * (Len(duplicates[g].paths) - 1)])

\* _get_duplicate_types: type_counts[get_file_type(files[0])] += len(files) - 1
_get_duplicate_types(d, duplicates) ==
    LET types == {get_file_type(d, duplicates[g].paths[1]) : g \in DOMAIN duplicates}
    IN  [t \in types |->
            SumSeq([g \in DOMAIN duplicates |->
                      IF get_file_type(d, duplicates[g].paths[1]) = t
                      THEN Len(duplicates[g].paths) - 1 ELSE 0])]

InAnalyze == args.op = "analyze_duplicates" /\ pc = "start"

\* files[0] of an empty list raises IndexError; os.path.getsize of a first
\* file that no longer exists raises OSError
AnalyzeRaises ==
    /\ InAnalyze
    /\ \E g \in DOMAIN args.duplicates :
          /\ \A h \in 1..(g - 1) : Len(args.duplicates[h].paths) > 0
          /\ IF Len(args.duplicates[g].paths) = 0
             THEN ret' = "IndexError" /\ disk' = disk
             ELSE /\ ret' = "OSError"
                  /\ disk' = [disk EXCEPT ![args.duplicates[g].paths[1]].state = "gone"]
    /\ pc' = "raised"
    /\ UNCHANGED <<args, locals, oplog, file_metadata>>

AnalyzeReturn ==
    /\ InAnalyze
    /\ \A g \in DOMAIN args.duplicates : Len(args.duplicates[g].paths) > 0
    /\ \E size \in [DOMAIN args.duplicates -> Sizes] :
          /\ locals' = [locals EXCEPT !.keys = size]
          /\ ret' = [total_duplicate_groups |-> Len(args.duplicates),
                     total_duplicate_files |-> total_duplicates(args.duplicates),
                     potential_space_saved |-> total_space(args.duplicates, size),
                     duplicate_types |-> _get_duplicate_types(disk, args.duplicates)]
    /\ pc' = "returned"
    /\ UNCHANGED <<disk, args, oplog, file_metadata>>

analyze_duplicates == AnalyzeRaises \/ AnalyzeReturn

NextRemove == remove_duplicates \/ analyze_duplicates

SpecRemove == InitRemove /\ [][NextRemove]_vars

-----------------------------------------------------------------------------
(* The similarity DuplicateDetector (src/duplicate_detector.py)            *)
(*                                                                         *)
(* A signature is [kind |-> "hash", value |-> digest] (a str in the code), *)
(* [kind |-> "vector", value |-> v] (an array) or [kind |-> "none"]        *)
(* (None); [kind |-> "raise"] stands for an exception leaving the call.    *)
(* The text of a file is a content: content 0 is the text that spells the  *)
(* path of file 1, every other content spells the path of no file.         *)

NoSignature == [kind |-> "none"]
Raised == [kind |-> "raise"]
HashSignature(c) == [kind |-> "hash", value |-> HashOf("sha256", c)]

ComparedPaths == 1..NumCompared

\* the existing file a string names when it is used as a path, 0 if none
SpelledPath(content) == IF content = 0 THEN 1 ELSE 0

\* compute_hash: open(file_path, "rb") raises for a file that cannot be read
compute_hash(d, p) ==
    IF d[p].state = "ok" THEN HashSignature(d[p].content) ELSE Raised

\* compute_embeddings(file_path).  In the text branch the text read is
\* handed to compute_embeddings again, that is, used as a path: when it
\* names no file, compute_hash(text) raises, and the except clause of the
\* text branch returns None; when it names a file, that file's signature
\* is returned.  depth bounds the recursion (RecursionError is an Exception
\* and ends in the same except clause).
RECURSIVE compute_embeddings(_, _, _)
compute_embeddings(d, p, depth) ==
    IF d[p].text
    THEN IF d[p].state # "ok" \/ depth = 0 THEN NoSignature
         ELSE LET target == SpelledPath(d[p].content)
                  inner == IF target = 0 THEN Raised
                           ELSE compute_embeddings(d, target, depth - 1)
              IN  IF inner = Raised THEN NoSignature ELSE inner
    ELSE compute_hash(d, p)

Dot(a, b) == SumSeq([i \in DOMAIN a |-> a[i] * b[i]])

\* cosine_similarity(a, b) >= threshold / 100, in exact arithmetic; sklearn
\* gives 0 for a zero vector
CosineAtLeast(a, b, threshold) ==
    LET d == Dot(a, b)
        n == Dot(a, a) * Dot(b, b)
    IN  IF n = 0 THEN threshold <= 0
        ELSE IF d >= 0
             THEN threshold <= 0 \/ 10000 * d * d >= threshold * threshold * n
             ELSE threshold < 0 /\ 10000 * d * d <= threshold * threshold * n

\* a comparison that scores a pair of different kinds 0.0 and then compares
\* the score with the threshold
PairMatchesMixedScoresZero(emb1, emb2, threshold) ==
    IF emb1.kind = "hash" /\ emb2.kind = "hash" THEN emb1.value = emb2.value
    ELSE IF emb1.kind # "hash" /\ emb2.kind # "hash"
         THEN CosineAtLeast(emb1.value, emb2.value, threshold)
         ELSE 0 >= threshold

\* the body of the nested loop: both str, both not str, or no comparison
PairMatches(emb1, emb2, threshold) ==
    IF emb1.kind = "hash" /\ emb2.kind = "hash" THEN emb1.value = emb2.value
    ELSE IF emb1.kind # "hash" /\ emb2.kind # "hash"
         THEN CosineAtLeast(emb1.value, emb2.value, threshold)
         ELSE FALSE

\* an inner loop that runs over the whole list, for j in range(len(file_list))
IndexPairsWholeInner(i, j, n) ==
    [k \in 1..(n * n) |-> <<((k - 1) \div n) + 1, ((k - 1) % n) + 1>>]

\* for i in range(len(file_list)): for j in range(i + 1, len(file_list))
RECURSIVE IndexPairs(_, _, _)
IndexPairs(i, j, n) ==
    IF i > n THEN <<>>
    ELSE IF j > n THEN IndexPairs(i + 1, i + 2, n)
    ELSE <<<<i, j>>>> \o IndexPairs(i, j + 1, n)

\* the nested loop over file_list = list(file_embeddings.keys())
ScanFileList(file_list, file_embeddings, threshold) ==
    LET hits == SelectSeq(IndexPairs(1, 2, Len(file_list)), LAMBDA ij :
                    PairMatches(file_embeddings[file_list[ij[1]]],
                                file_embeddings[file_list[ij[2]]], threshold))
    IN  [k \in DOMAIN hits |-> <<file_list[hits[k][1]], file_list[hits[k][2]]>>]

\* similarity_threshold in hundredths: the default 0.95, the ends of [0, 1],
\* a value inside and a value above 1
Thresholds == {0, 50, 95, 100, 150}

InitSimilar ==
    /\ disk \in [ComparedPaths ->
                   [content : Contents \cup {0}, state : {"ok"}, text : BOOLEAN]
                   \cup [content : {1}, state : {"unreadable"}, text : BOOLEAN]]
    /\ args \in [op : {"find_duplicates"},
                 file_paths : {[i \in ComparedPaths |-> i]},
                 similarity_threshold : Thresholds]
    /\ pc = "start"
    /\ locals = [file_embeddings |-> [p \in ComparedPaths |-> NoSignature]]
    /\ ret = None
    /\ oplog = <<>>
    /\ file_metadata = {}

\* the first loop: file_embeddings[file_path] = emb unless emb is None; an
\* exception of compute_embeddings leaves find_duplicates
EmbedFiles ==
    /\ pc = "start"
    /\ LET emb == [p \in ComparedPaths |-> compute_embeddings(disk, p, NumCompared)]
       IN  IF \E p \in ComparedPaths : emb[p] = Raised
           THEN /\ pc' = "raised"
                /\ ret' = "OSError"
                /\ UNCHANGED locals
           ELSE /\ pc' = "scan"
                /\ locals' = [file_embeddings |-> emb]
                /\ UNCHANGED ret
    /\ UNCHANGED <<disk, args, oplog, file_metadata>>

\* the second loop and the return
ScanPairs ==
    /\ pc = "scan"
    /\ LET file_list == SelectSeq(args.file_paths,
                           LAMBDA p : locals.file_embeddings[p] # NoSignature)
       IN  ret' = ScanFileList(file_list, locals.file_embeddings,
                               args.similarity_threshold)
    /\ pc' = "returned"
    /\ UNCHANGED <<disk, args, locals, oplog, file_metadata>>

NextSimilar == EmbedFiles \/ ScanPairs

SpecSimilar == InitSimilar /\ [][NextSimilar]_vars

\* The nested loop on its own, over every table of signatures of either
\* kind: the arrays are what an embedding of a text is.  The input list is
\* given in path order or in the opposite order.
Vectors == {<<1, 0>>, <<0, 1>>, <<1, 1>>, <<-1, 0>>}

Signatures ==
    {NoSignature} \cup {HashSignature(c) : c \in Contents}
                  \cup {[kind |-> "vector", value |-> v] : v \in Vectors}

InitScan ==
    /\ disk = [p \in ComparedPaths |-> [content |-> 1, state |-> "ok", text |-> FALSE]]
    /\ args \in [op : {"find_duplicates"},
                 file_paths : {[i \in ComparedPaths |-> i],
                               [i \in ComparedPaths |-> NumCompared + 1 - i]},
                 similarity_threshold : Thresholds]
    /\ pc = "scan"
    /\ locals \in [file_embeddings : [ComparedPaths -> Signatures]]
    /\ ret = None
    /\ oplog = <<>>
    /\ file_metadata = {}

NextScan == ScanPairs

SpecScan == InitScan /\ [][NextScan]_vars

-----------------------------------------------------------------------------
(* Claims about find_duplicates (exact) *)

FindReturned == pc = "returned" /\ args.op = "find_duplicates"

\* the scanned files whose hash computation succeeds
Hashed(p) == ~HashRaises(disk, p, args.hash_type)

InGroup(groups, p) == \E i \in DOMAIN groups : p \in Range(groups[i].paths)

SameGroup(groups, a, b) ==
    \E i \in DOMAIN groups : a \in Range(groups[i].paths) /\ b \in Range(groups[i].paths)

\* C1: find_duplicates returns a mapping whose keys are content hashes, each
\* with exactly the list (in scan order) of the scanned paths whose content
\* hashes to that key, only for hashes with at least 2 paths: two hashed
\* files with identical bytes are in the same group, and a file whose bytes
\* no other scanned file shares is in no group.
C1_ExactGroups ==
    FindReturned =>
        /\ \A i \in DOMAIN ret :
              /\ ret[i].paths = SelectSeq(list_files, LAMBDA p :
                     Hashed(p) /\ HashOf(args.hash_type, disk[p].content) = ret[i].key)
              /\ Len(ret[i].paths) >= 2
        /\ \A i, j \in DOMAIN ret : ret[i].key = ret[j].key => i = j
        /\ \A a, b \in ScannedPaths :
              (a # b /\ Hashed(a) /\ Hashed(b) /\ disk[a].content = disk[b].content)
                  => SameGroup(ret, a, b)
        /\ \A a \in ScannedPaths :
              (\A b \in ScannedPaths : b # a => disk[b].content # disk[a].content)
                  => ~InGroup(ret, a)

\* 'hello', 'hello', 'world': one group of size 2, the third file in none
C1_Witness ==
    /\ FindReturned
    /\ \A p \in ScannedPaths : Hashed(p)
    /\ Len(ret) = 1 /\ Len(ret[1].paths) = 2
    /\ \E p \in ScannedPaths : ~InGroup(ret, p)

\* the per-file step of find_duplicates raises for p
StepRaises(p) == HashRaises(disk, p, args.hash_type) \/ MetadataRaises(disk, p)

LoggedFailure(operation_type, p) ==
    \E i \in DOMAIN oplog :
        /\ oplog[i].operation_type = operation_type
        /\ oplog[i].source_path = p
        /\ oplog[i].status = "failure"

\* C2: every scanned file whose per-file step raises (the hash computation
\* or the metadata read that follows it) gets a hash_calculation failure
\* entry and is in no returned group, and the other files are still grouped.
C2_FailedFilesExcluded ==
    FindReturned =>
        /\ \A p \in ScannedPaths :
              StepRaises(p) => LoggedFailure("hash_calculation", p) /\ ~InGroup(ret, p)
        /\ \A a, b \in ScannedPaths :
              (a # b /\ ~StepRaises(a) /\ ~StepRaises(b)
                 /\ disk[a].content = disk[b].content) => SameGroup(ret, a, b)

-----------------------------------------------------------------------------
(* Claims about remove_duplicates and analyze_duplicates *)

RemoveCall == args.op = "remove_duplicates"
RemoveEnded == RemoveCall /\ pc \in {"returned", "raised"}

Groups == args.duplicates
Members(g) == Range(Groups[g].paths)
Exists(p) == disk[p].state # "gone"

\* os.remove was called on p: each call is logged, as a success or a failure
Attempted(p) ==
    \E i \in DOMAIN oplog :
        oplog[i].operation_type = "duplicate_removal" /\ oplog[i].source_path = p

\* C3: for every group with at least 2 members remove_duplicates never
\* deletes the retained member and attempts to delete every other member;
\* when all deletions succeed exactly one member of the group still exists.
C3_KeepOneRemoveRest ==
    (RemoveEnded /\ args.keep_strategy \in Strategies) =>
        \A g \in DOMAIN Groups :
            Len(Groups[g].paths) >= 2 =>
                /\ \E k \in Members(g) :
                      /\ k \in locals.kept
                      /\ Exists(k)
                      /\ \A m \in Members(g) \ {k} : Attempted(m)
                /\ (\A m \in Members(g) : ~LoggedFailure("duplicate_removal", m))
                      => Cardinality({m \in Members(g) : Exists(m)}) = 1

\* C4: the returned list holds p iff the deletion of p succeeded during the
\* call: never a retained path, a path whose deletion failed, or a path of a
\* group of size <= 1 (and no path twice).
C4_ReturnedListIsDeleted ==
    (RemoveCall /\ pc = "returned") =>
        /\ \A p \in RemovePaths : (p \in Range(ret)) <=> ~Exists(p)
        /\ Range(ret) \cap locals.kept = {}
        /\ \A p \in Range(ret) : ~LoggedFailure("duplicate_removal", p)
        /\ \A g \in DOMAIN Groups :
              Len(Groups[g].paths) <= 1 => Members(g) \cap Range(ret) = {}
        /\ Cardinality(Range(ret)) = Len(ret)

\* a call that removed one file, failed to remove another and skipped a
\* group of one
C4_Witness ==
    /\ RemoveCall /\ pc = "returned"
    /\ ret # <<>>
    /\ \E p \in RemovePaths : LoggedFailure("duplicate_removal", p) /\ Exists(p)
    /\ \E g \in DOMAIN Groups : Len(Groups[g].paths) = 1

\* C5: a failure while processing one member (os.remove raises, or the
\* member has vanished and its mtime/size cannot be read) is logged as a
\* duplicate_removal failure and does not abort the call: the call returns,
\* and every non-retained member of every group was attempted.
C5_FailureDoesNotAbort ==
    (RemoveEnded /\ args.keep_strategy \in Strategies) =>
        /\ pc = "returned"
        /\ \A p \in RemovePaths :
              (~Exists(p) /\ p \notin Range(locals.removed_files))
                  => LoggedFailure("duplicate_removal", p)
        /\ \A g \in DOMAIN Groups :
              Len(Groups[g].paths) >= 2 =>
                  Cardinality({m \in Members(g) : ~Attempted(m)}) = 1

\* the group the loop handled last, once it has been sorted
LastSorted == RemoveCall /\ locals.sorted_files # <<>>
LastGroup == Groups[locals.gi - 1].paths

\* C6: the member retained for a group is the first member, in the group's
\* order, among those with the extreme key of the strategy (greatest for
\* newest/largest, least for oldest/smallest), and it is not removed.
C6_RetainedIsFirstExtreme ==
    LastSorted =>
        LET keep_file == locals.sorted_files[1]
            key == locals.keys
        IN  /\ \E i \in DOMAIN LastGroup :
                  /\ LastGroup[i] = keep_file
                  /\ \A j \in DOMAIN LastGroup :
                        IF args.keep_strategy \in {"newest", "largest"}
                        THEN key[LastGroup[j]] <= key[keep_file]
                        ELSE key[LastGroup[j]] >= key[keep_file]
                  /\ \A j \in 1..(i - 1) : key[LastGroup[j]] # key[keep_file]
            /\ keep_file \in locals.kept
            /\ Exists(keep_file)
            /\ keep_file \notin Range(locals.removed_files)

\* 'newest': the second member is kept, a later member with the same
\* modification time is removed, and so is the older first member
C6_Witness ==
    /\ LastSorted
    /\ args.keep_strategy = "newest"
    /\ Len(LastGroup) = 3
    /\ locals.sorted_files[1] = LastGroup[2]
    /\ locals.keys[LastGroup[1]] < locals.keys[LastGroup[2]]
    /\ locals.keys[LastGroup[3]] = locals.keys[LastGroup[2]]
    /\ LastGroup[1] \in Range(locals.removed_files)
    /\ LastGroup[3] \in Range(locals.removed_files)

\* C7: with a strategy outside {newest, oldest, largest, smallest} the call
\* fails with an invalid-argument error for every mapping (the empty one and
\* groups of size <= 1 included) and deletes no file.
C7_UnknownStrategyRaises ==
    (RemoveEnded /\ args.keep_strategy \notin Strategies) =>
        /\ pc = "raised"
        /\ ret = "ValueError"
        /\ \A p \in RemovePaths : Exists(p)

AnalyzeCall == args.op = "analyze_duplicates"

RECURSIVE SumOver(_, _)
SumOver(S, f) ==
    IF S = {} THEN 0
    ELSE LET x == CHOOSE y \in S : TRUE IN f[x] + SumOver(S \ {x}, f)

\* the members of the groups other than each group's first member
NonFirstMembers == {p \in UNION {Members(g) : g \in DOMAIN Groups} :
                       Groups[GroupOf(Groups, p)].paths[1] # p}

\* C8: on groups each of size >= 2 analyze_duplicates returns the number of
\* groups, total_duplicate_files = sum of (|g| - 1), and
\* potential_space_saved = sum of (|g| - 1) x size of the group's first
\* member, which is >= 0.
C8_AnalyzeTotals ==
    (AnalyzeCall /\ pc = "returned"
       /\ \A g \in DOMAIN Groups : Len(Groups[g].paths) >= 2) =>
        /\ ret.total_duplicate_groups = Cardinality(DOMAIN Groups)
        /\ ret.total_duplicate_files = Cardinality(NonFirstMembers)
        /\ ret.potential_space_saved =
              SumOver(NonFirstMembers, [p \in NonFirstMembers |-> locals.keys[GroupOf(Groups, p)]])
        /\ ret.potential_space_saved >= 0

\* two groups whose first members differ in size
C8_Witness ==
    /\ AnalyzeCall /\ pc = "returned"
    /\ Len(Groups) = 2
    /\ Len(Groups[1].paths) = 2 /\ Len(Groups[2].paths) = 2
    /\ locals.keys[1] = 1 /\ locals.keys[2] = 0
    /\ ret.total_duplicate_files = 2
    /\ ret.potential_space_saved = 1

-----------------------------------------------------------------------------
(* Claims about find_duplicates (similarity) *)

Emitted(a, b) == <<a, b>> \in Range(ret)
Readable(p) == disk[p].state = "ok"

\* the score of two binary files, in hundredths: 1.0 iff the hashes are equal
BinaryScore(a, b) == IF disk[a].content = disk[b].content THEN 100 ELSE 0

\* C9: find_duplicates emits an unordered pair of input paths iff both files
\* have signatures of the same kind (text-like files a vector, binary files
\* a hash) and their score reaches the threshold; in particular two
\* text-like files whose similarity reaches the threshold are reported.
\* Stated for thresholds in [0, 1]; of two text-like files only the case of
\* identical texts, whose cosine is 1.0, is used.
C9_SameKindPairsAtThreshold ==
    (pc = "returned" /\ args.similarity_threshold \in 0..100) =>
        \A a, b \in ComparedPaths :
            a < b =>
                IF ~disk[a].text /\ ~disk[b].text
                THEN Emitted(a, b) <=>
                        (Readable(a) /\ Readable(b)
                           /\ BinaryScore(a, b) >= args.similarity_threshold)
                ELSE IF disk[a].text /\ disk[b].text
                THEN /\ (Readable(a) /\ Readable(b)
                           /\ disk[a].content = disk[b].content) => Emitted(a, b)
                     /\ Emitted(a, b) => (Readable(a) /\ Readable(b))
                ELSE ~Emitted(a, b)

SignatureOf(p) == locals.file_embeddings[p]

\* C10: a binary hash signature and a vector signature are never compared:
\* no emitted pair has signatures of different kinds, for any threshold.
C10_NoMixedKindPair ==
    pc = "returned" =>
        \A a, b \in ComparedPaths :
            Emitted(a, b) => SignatureOf(a).kind = SignatureOf(b).kind

\* at threshold 0 a hash and a vector are both in the table, some pair is
\* emitted, and the pair of the two is not
C10_Witness ==
    /\ pc = "returned"
    /\ args.similarity_threshold = 0
    /\ ret # <<>>
    /\ \E a, b \in ComparedPaths :
          /\ a < b
          /\ SignatureOf(a).kind = "hash" /\ SignatureOf(b).kind = "vector"
          /\ ~Emitted(a, b)

SimilarEnded == args.op = "find_duplicates" /\ pc \in {"returned", "raised"}

\* C11: in find_duplicates (similarity) a file that cannot be read, text-like
\* or binary, yields no signature and is in no emitted pair; the call does
\* not abort, and the pairs among the remaining files are still compared
\* (two readable binary files with the same bytes are emitted).
C11_UnreadableFilesSkipped ==
    SimilarEnded =>
        /\ pc = "returned"
        /\ \A a, b \in ComparedPaths :
              Emitted(a, b) => (Readable(a) /\ Readable(b))
        /\ \A a, b \in ComparedPaths :
              (a < b /\ ~disk[a].text /\ ~disk[b].text
                 /\ Readable(a) /\ Readable(b)
                 /\ disk[a].content = disk[b].content) => Emitted(a, b)

\* the place of a path in the input list
PositionOf(p) == CHOOSE i \in DOMAIN args.file_paths : args.file_paths[i] = p

\* C12: find_duplicates (similarity) emits pairs in the order of the nested
\* scan over the input list: in every emitted pair (a, b) a is before b in
\* the input list, the pairs are in strictly increasing lexicographic order of
\* (place of a, place of b), and no unordered pair is emitted twice.
C12_PairsInScanOrder ==
    (args.op = "find_duplicates" /\ pc = "returned") =>
        /\ \A k \in DOMAIN ret : PositionOf(ret[k][1]) < PositionOf(ret[k][2])
        /\ \A k, l \in DOMAIN ret :
              k < l =>
                  \/ PositionOf(ret[k][1]) < PositionOf(ret[l][1])
                  \/ /\ PositionOf(ret[k][1]) = PositionOf(ret[l][1])
                     /\ PositionOf(ret[k][2]) < PositionOf(ret[l][2])
        /\ \A k, l \in DOMAIN ret :
              k # l => {ret[k][1], ret[k][2]} # {ret[l][1], ret[l][2]}

\* the input list is in the opposite of path order and every pair of it is
\* emitted
C12_Witness ==
    /\ args.op = "find_duplicates" /\ pc = "returned"
    /\ args.file_paths[1] > args.file_paths[2]
    /\ Len(ret) = (NumCompared * (NumCompared - 1)) \div 2
    /\ Len(ret) >= 3

\* C13: find_duplicates (similarity) called with a threshold outside [0, 1]
\* fails with an invalid-argument error instead of returning a result: no
\* such call returns.
C13_ThresholdOutOfRangeRejected ==
    (SimilarEnded /\ args.similarity_threshold \notin 0..100) => pc # "returned"

-----------------------------------------------------------------------------
(* The Logger as a store (src/utils/logger.py): any sequence of            *)
(* log_operation, log_file_metadata, get_operation_history and             *)
(* generate_report calls.  Row i of oplog has id i (AUTOINCREMENT);        *)
(* locals.timestamp is the timestamp column, filled by the database with   *)
(* CURRENT_TIMESTAMP, whose resolution is one second.  args and ret are    *)
(* the last call and what it returned.  locals.written (the values of the  *)
(* last log_file_metadata call for each path, <<>> when there was none)    *)
(* and locals.overwritten (the paths whose snapshot has been replaced by a *)
(* different one) record the calls made.                                   *)

MaxEntries == 2      \* rows the operations table may hold

OperationTypes == {"file_organization", "duplicate_removal"}
Statuses == {"success", "failure"}
Seconds == 0..1
MetaPaths == {"a.txt", "b.txt"}
Snapshots == {"h1", "h2"}

\* limit: 0, 1, and the default 100
Limits == {0, 1, 100}

\* start_date, end_date: <<>> is None, <<t>> is the second t
Dates == {<<>>} \cup {<<t>> : t \in Seconds}

Min(a, b) == IF a <= b THEN a ELSE b

\* the orders in which ORDER BY timestamp DESC may yield the rows: SQL
\* leaves the order of rows with equal timestamps open
OrderByTimestampDesc(timestamp) ==
    LET n == Len(timestamp)
    IN  {s \in [1..n -> 1..n] :
            /\ \A i, j \in 1..n : i # j => s[i] # s[j]
            /\ \A i, j \in 1..n : i < j => timestamp[s[i]] >= timestamp[s[j]]}

\* get_operation_history: SELECT * ... ORDER BY timestamp DESC LIMIT ?; the
\* possible results, each the sequence of the ids of the rows returned
get_operation_history(timestamp, limit) ==
    {SubSeq(s, 1, Min(limit, Len(timestamp))) : s \in OrderByTimestampDesc(timestamp)}

\* WHERE 1=1 [AND timestamp >= start_date] [AND timestamp <= end_date]
InWindow(t, start_date, end_date) ==
    /\ (start_date # <<>> => t >= start_date[1])
    /\ (end_date # <<>> => t <= end_date[1])

\* SELECT operation_type, status, COUNT(*) ... GROUP BY operation_type,
\* status: the count of one group
GroupCount(log, timestamp, start_date, end_date, operation_type, status) ==
    Cardinality({i \in DOMAIN log :
                    /\ InWindow(timestamp[i], start_date, end_date)
                    /\ log[i].operation_type = operation_type
                    /\ log[i].status = status})

\* operations_by_type: one entry per operation type that has a row in the
\* window, with the counts of its success and failure rows
operations_by_type(log, timestamp, start_date, end_date) ==
    LET present == {t \in OperationTypes : \E st \in Statuses :
                       GroupCount(log, timestamp, start_date, end_date, t, st) > 0}
    IN  [t \in present |->
            [st \in Statuses |->
                GroupCount(log, timestamp, start_date, end_date, t, st)]]

\* a sum over every count of the table, the failures included
total_success_counts_every_status(by_type) ==
    SumOver(DOMAIN by_type, [t \in DOMAIN by_type |->
                SumOver(Statuses, by_type[t])])

\* total_success = sum(op['success'] for op in operations_by_type.values())
total_success(by_type) ==
    SumOver(DOMAIN by_type, [t \in DOMAIN by_type |-> by_type[t]["success"]])

\* total_operations = sum(row[2] for row in results)
total_operations(by_type) ==
    SumOver(DOMAIN by_type, [t \in DOMAIN by_type |->
                SumOver(Statuses, by_type[t])])

\* success_rate: 0, or (total_success / total_operations) * 100 when
\* total_operations > 0.  The float is the exact fraction num / den.
success_rate(successes, total) ==
    IF total > 0 THEN [num |-> successes * 100, den |-> total]
    ELSE [num |-> 0, den |-> 1]

\* generate_report(start_date, end_date): the report returned
generate_report(log, timestamp, start_date, end_date) ==
    LET by_type == operations_by_type(log, timestamp, start_date, end_date)
    IN  [total_operations |-> total_operations(by_type),
         operations_by_type |-> by_type,
         success_rate |-> success_rate(total_success(by_type),
                                       total_operations(by_type))]

InitLogger ==
    /\ disk = <<>>
    /\ args = [op |-> "Logger"]
    /\ pc = "idle"
    /\ locals = [timestamp |-> <<>>,
                 written |-> [p \in MetaPaths |-> <<>>],
                 overwritten |-> {}]
    /\ ret = None
    /\ oplog = <<>>
    /\ file_metadata = {}

\* the clock does not run backwards: CURRENT_TIMESTAMP of a new row is the
\* second of the last row or a later one
Now == {t \in Seconds :
           locals.timestamp = <<>> \/ t >= locals.timestamp[Len(locals.timestamp)]}

LogOperation ==
    /\ pc = "idle"
    /\ Len(oplog) < MaxEntries
    /\ \E operation_type \in OperationTypes, status \in Statuses, t \in Now :
          /\ oplog' = log_operation(oplog, operation_type, "a.txt", status, "")
          /\ locals' = [locals EXCEPT !.timestamp = Append(@, t)]
          /\ args' = [op |-> "log_operation", operation_type |-> operation_type,
                      status |-> status]
    /\ ret' = None
    /\ UNCHANGED <<disk, pc, file_metadata>>

LogFileMetadata ==
    /\ pc = "idle"
    /\ \E file_path \in MetaPaths, file_hash \in Snapshots :
          /\ file_metadata' = log_file_metadata(file_metadata, file_path, file_hash)
          /\ locals' = [locals EXCEPT
                          !.written[file_path] = <<file_hash>>,
                          !.overwritten =
                              IF locals.written[file_path] \notin {<<>>, <<file_hash>>}
                              THEN @ \cup {file_path} ELSE @]
          /\ args' = [op |-> "log_file_metadata", file_path |-> file_path,
                      file_hash |-> file_hash]
    /\ ret' = None
    /\ UNCHANGED <<disk, pc, oplog>>

GetOperationHistory ==
    /\ pc = "idle"
    /\ \E limit \in Limits :
          /\ ret' \in get_operation_history(locals.timestamp, limit)
          /\ args' = [op |-> "get_operation_history", limit |-> limit]
    /\ UNCHANGED <<disk, pc, locals, oplog, file_metadata>>

GenerateReport ==
    /\ pc = "idle"
    /\ \E start_date \in Dates, end_date \in Dates :
          /\ ret' = generate_report(oplog, locals.timestamp, start_date, end_date)
          /\ args' = [op |-> "generate_report", start_date |-> start_date,
                      end_date |-> end_date]
    /\ UNCHANGED <<disk, pc, locals, oplog, file_metadata>>

NextLogger == LogOperation \/ LogFileMetadata \/ GetOperationHistory \/ GenerateReport

SpecLogger == InitLogger /\ [][NextLogger]_vars

-----------------------------------------------------------------------------
(* Claims about the Logger *)

\* C14: the operations log is append-only: whatever call of log_operation,
\* log_file_metadata, get_operation_history or generate_report is made,
\* every row written before is still there with the same fields and the
\* same timestamp, and the number of rows does not decrease.
C14_OperationsAppendOnly ==
    [][/\ Len(oplog') >= Len(oplog)
       /\ \A i \in DOMAIN oplog :
             /\ oplog'[i] = oplog[i]
             /\ locals'.timestamp[i] = locals.timestamp[i]]_vars

\* a report is asked for when the table is full and a snapshot is stored
C14_Witness ==
    /\ args.op = "generate_report"
    /\ Len(oplog) = MaxEntries
    /\ file_metadata # {}

\* C15: log_file_metadata is an upsert keyed by file path: the table holds
\* no row for a path never written and exactly one row for a path written,
\* with the values of the last call for that path; so a call leaves the
\* snapshots of the other paths as they were.
C15_MetadataUpsert ==
    pc = "idle" =>
        \A p \in MetaPaths :
            {r \in file_metadata : r.file_path = p} =
                IF locals.written[p] = <<>> THEN {}
                ELSE {[file_path |-> p, file_hash |-> locals.written[p][1]]}

\* the last call replaced the snapshot of its path by a different one, and
\* the other path's snapshot is stored
C15_Witness ==
    /\ args.op = "log_file_metadata"
    /\ args.file_path \in locals.overwritten
    /\ \E q \in MetaPaths \ {args.file_path} : locals.written[q] # <<>>

\* C16: get_operation_history(limit) returns at most limit rows, the most
\* recently appended ones, the later before the earlier, also for rows
\* appended within the same second: the ids returned are n, n - 1, ...
C16_HistoryMostRecentFirst ==
    args.op = "get_operation_history" =>
        /\ Len(ret) = Min(args.limit, Len(oplog))
        /\ \A k \in DOMAIN ret : ret[k] = Len(oplog) + 1 - k

\* the rows in the window of the last generate_report call
WindowRows == {i \in DOMAIN oplog :
                  InWindow(locals.timestamp[i], args.start_date, args.end_date)}
WindowSuccesses == {i \in WindowRows : oplog[i].status = "success"}

\* C17: generate_report returns success_rate equal to (rows with status
\* success in the window) / (rows in the window), a value in [0, 1], and 0
\* when the window holds no row.
C17_SuccessRateIsFraction ==
    args.op = "generate_report" =>
        LET rate == ret.success_rate
        IN  /\ rate.den > 0
            /\ rate.num * Cardinality(WindowRows)
                   = Cardinality(WindowSuccesses) * rate.den
            /\ 0 <= rate.num /\ rate.num <= rate.den
            /\ WindowRows = {} => rate.num = 0

\* C17 amended: success_rate is the percentage 100 * (rows with status
\* success in the window) / (rows in the window), a value in [0, 100], and
\* 0 when the window holds no row; total_operations is the number of rows
\* in the window.
C17_SuccessRateIsPercentage ==
    args.op = "generate_report" =>
        LET rate == ret.success_rate
        IN  /\ rate.den > 0
            /\ rate.num * Cardinality(WindowRows)
                   = 100 * Cardinality(WindowSuccesses) * rate.den
            /\ 0 <= rate.num /\ rate.num <= 100 * rate.den
            /\ WindowRows = {} => rate.num = 0
            /\ ret.total_operations = Cardinality(WindowRows)

\* a report from second 1 on: a failure before the window and a success
\* inside it, total_operations 1 and success_rate 100
C17_Witness ==
    /\ args.op = "generate_report"
    /\ args.start_date = <<1>>
    /\ \E i \in DOMAIN oplog \ WindowRows : oplog[i].status = "failure"
    /\ WindowSuccesses # {}
    /\ ret.total_operations = 1
    /\ ret.success_rate.num = 100 * ret.success_rate.den

-----------------------------------------------------------------------------
(* FileClassifier.classify_file (src/organized/document/model.py)          *)
(*                                                                         *)
(* The file classified is disk[1] = [ext, mime, state]: ext is the         *)
(* extension as spelled in its name, mime what magic.from_file finds in    *)
(* its content, state "ok", "undecodable" (the file exists but cannot be   *)
(* read as UTF-8 text or opened as an image) or "gone" (magic raises).     *)
(* Confidences are in hundredths.                                          *)

\* str.lower() on the extensions considered
Lower(extension) ==
    CASE extension = ".PDF" -> ".pdf"
      [] extension = ".Py" -> ".py"
      [] extension = ".JPG" -> ".jpg"
      [] OTHER -> extension

\* get_file_extension: os.path.splitext(file_path)[1].lower()
get_file_extension(d, p) == Lower(d[p].ext)

\* magic.from_file(file_path, mime=True), the body of get_file_type
magic_from_file(d, p) == d[p].mime

\* file_type.startswith('text/'), file_type.startswith('image/')
TextMimes == {"text/plain", "text/x-python"}
ImageMimes == {"image/jpeg"}
OtherMimes == {"application/pdf", "application/octet-stream"}

ImageExtensions == {".jpg", ".jpeg", ".png", ".gif", ".bmp", ".tiff"}
DocumentExtensions == {".pdf", ".doc", ".docx", ".txt", ".rtf"}
VideoExtensions == {".mp4", ".avi", ".mov", ".wmv", ".flv"}
AudioExtensions == {".mp3", ".wav", ".ogg", ".flac"}
CodeExtensions == {".py", ".java", ".cpp", ".js", ".html", ".css"}
ArchiveExtensions == {".zip", ".rar", ".7z", ".tar", ".gz"}

TableExtensions ==
    ImageExtensions \cup DocumentExtensions \cup VideoExtensions
        \cup AudioExtensions \cup CodeExtensions \cup ArchiveExtensions

\* a table whose last branch gives 'unknown'
_get_category_from_extension_else_unknown(extension) ==
    LET e == Lower(extension)
    IN  CASE e \in ImageExtensions -> "image"
          [] e \in DocumentExtensions -> "document"
          [] e \in VideoExtensions -> "video"
          [] e \in AudioExtensions -> "audio"
          [] e \in CodeExtensions -> "code"
          [] e \in ArchiveExtensions -> "archive"
          [] OTHER -> "unknown"

\* _get_category_from_extension: lower(), then the if/elif chain
_get_category_from_extension(extension) ==
    LET e == Lower(extension)
    IN  CASE e \in ImageExtensions -> "image"
          [] e \in DocumentExtensions -> "document"
          [] e \in VideoExtensions -> "video"
          [] e \in AudioExtensions -> "audio"
          [] e \in CodeExtensions -> "code"
          [] e \in ArchiveExtensions -> "archive"
          [] OTHER -> "other"

\* _classify_text_file: st = [classification, log, inference]
_classify_text_file(st, d, p) ==
    IF d[p].state = "ok"
    THEN [st EXCEPT !.classification.category = "document",
                    !.classification.confidence = 80,
                    !.inference = "text"]
    ELSE [st EXCEPT !.classification.category = "unknown",
                    !.classification.confidence = 0,
                    !.inference = "text",
                    !.log = log_operation(@, "text_classification", p, "failure", "read")]

\* _classify_image_file; loaded: the image extractor and model are there
_classify_image_file(st, d, p, loaded) ==
    IF ~loaded
    THEN [st EXCEPT !.classification.category = "image",
                    !.classification.confidence = 50,
                    !.inference = "image"]
    ELSE IF d[p].state = "ok"
    THEN [st EXCEPT !.classification.category = "image",
                    !.classification.confidence = 90,
                    !.inference = "image"]
    ELSE [st EXCEPT !.classification.category = "image",
                    !.classification.confidence = 50,
                    !.inference = "image",
                    !.log = log_operation(@, "image_classification", p, "failure", "open")]

\* the body of classify_file after get_file_type returned file_type
ClassifyByType(log, d, p, loaded) ==
    LET file_type == magic_from_file(d, p)
        st == [classification |-> [file_path |-> p,
                                   file_type |-> file_type,
                                   category |-> "unknown",
                                   confidence |-> 0],
               log |-> log,
               inference |-> "none"]
    IN  IF file_type \in TextMimes THEN _classify_text_file(st, d, p)
        ELSE IF file_type \in ImageMimes THEN _classify_image_file(st, d, p, loaded)
        ELSE [st EXCEPT
                !.classification.category =
                    _get_category_from_extension(get_file_extension(d, p)),
                !.classification.confidence = 100]

\* the extensions of the names considered: in the table in either case, code
\* and image and document and archive ones, one not in the table, and none
NameExtensions == {".pdf", ".PDF", ".txt", ".py", ".Py", ".jpg", ".JPG", ".zip", ".xyz", ""}

ClassifiedStates == {"ok", "undecodable", "gone"}

InitClassify ==
    /\ disk \in [{1} -> [ext : NameExtensions,
                         mime : TextMimes \cup ImageMimes \cup OtherMimes,
                         state : ClassifiedStates]]
    /\ args = [op |-> "classify_file", file_path |-> 1]
    /\ pc = "start"
    /\ locals \in [image_model : BOOLEAN, inference : {"none"}]
    /\ ret = None
    /\ oplog = <<>>
    /\ file_metadata = {}

\* classify_file: get_file_type is called before the try, so what magic
\* raises leaves the call; the branches catch their own exceptions
classify_file ==
    /\ pc = "start"
    /\ args.op = "classify_file"
    /\ LET p == args.file_path
       IN  IF disk[p].state = "gone"
           THEN /\ pc' = "raised"
                /\ ret' = "OSError"
                /\ UNCHANGED <<locals, oplog>>
           ELSE LET st == ClassifyByType(oplog, disk, p, locals.image_model)
                IN  /\ pc' = "returned"
                    /\ ret' = st.classification
                    /\ locals' = [locals EXCEPT !.inference = st.inference]
                    /\ oplog' = st.log
    /\ UNCHANGED <<disk, args, file_metadata>>

NextClassify == classify_file

SpecClassify == InitClassify /\ [][NextClassify]_vars

-----------------------------------------------------------------------------
(* Claims about classify_file *)

Classified == args.op = "classify_file" /\ pc = "returned"
ClassifiedFile == disk[args.file_path]

\* C18: classify_file on a file whose extension, compared without regard to
\* case, is in the extension table returns the table's category with
\* confidence 1.0 and runs no content inference, whatever the MIME type.
C18_ExtensionDecides ==
    (Classified /\ Lower(ClassifiedFile.ext) \in TableExtensions) =>
        /\ ret.category = _get_category_from_extension(ClassifiedFile.ext)
        /\ ret.confidence = 100
        /\ locals.inference = "none"

\* C19: classify_file on a file whose extension is not in the extension
\* table: a text MIME type gives 'document' with a fixed moderate
\* confidence, an image MIME type gives 'image', any other MIME type gives
\* 'unknown' with confidence 0.  Stated for files that can be read.
C19_FallbackToContent ==
    (Classified /\ Lower(ClassifiedFile.ext) \notin TableExtensions
        /\ ClassifiedFile.state = "ok") =>
        IF ClassifiedFile.mime \in TextMimes
        THEN ret.category = "document" /\ ret.confidence = 80
        ELSE IF ClassifiedFile.mime \in ImageMimes
        THEN ret.category = "image"
        ELSE ret.category = "unknown" /\ ret.confidence = 0

\* C19 amended: on a readable file whose extension is not in the table, a
\* text MIME type gives 'document' with confidence 0.8, an image MIME type
\* gives 'image' (confidence 0.9 with the image model, 0.5 without), and
\* any other MIME type gives the table's last branch, 'other', with
\* confidence 1.0 and no content inference.
C19_FallbackElseOther ==
    (Classified /\ Lower(ClassifiedFile.ext) \notin TableExtensions
        /\ ClassifiedFile.state = "ok") =>
        IF ClassifiedFile.mime \in TextMimes
        THEN ret.category = "document" /\ ret.confidence = 80
                /\ locals.inference = "text"
        ELSE IF ClassifiedFile.mime \in ImageMimes
        THEN ret.category = "image"
                /\ ret.confidence = (IF locals.image_model THEN 90 ELSE 50)
                /\ locals.inference = "image"
        ELSE ret.category = "other" /\ ret.confidence = 100
                /\ locals.inference = "none"

\* data.xyz holding application/octet-stream is classified 'other'
C19_Witness ==
    /\ Classified
    /\ ClassifiedFile.ext = ".xyz"
    /\ ClassifiedFile.mime = "application/octet-stream"
    /\ ClassifiedFile.state = "ok"
    /\ ret.category = "other"

-----------------------------------------------------------------------------
(* FileOrganizer.organize_files                                            *)
(* (src/organized/document/file_organizer.py)                              *)
(*                                                                         *)
(* disk[p] is a file found under the source directory:                     *)
(*   name     its base name; files of different subdirectories may share   *)
(*            one;                                                         *)
(*   ext, mime, content   as above;                                        *)
(*   state    "ok", or "gone" for a file that vanishes after the listing   *)
(*            (or is destroyed later);                                     *)
(*   movable  FALSE when shutil.move raises for it;                        *)
(*   loc      SourceLoc, or [category, stamp] once moved: the file         *)
(*            dest/category/name when stamp = 0, and the file with the     *)
(*            timestamp suffix of second stamp - 1 otherwise.              *)
(* Files already under the destination are not modelled, and os.walk       *)
(* yields the files in path order.                                         *)

NumSource == 3       \* files under the source directory

SourceLoc == [category |-> "source", stamp |-> 0]

Profiles ==
    {[name |-> "a", ext |-> ".pdf", mime |-> "application/pdf", content |-> 1,
      state |-> "ok", movable |-> TRUE, loc |-> SourceLoc, text |-> FALSE],
     [name |-> "a", ext |-> ".PDF", mime |-> "application/pdf", content |-> 2,
      state |-> "ok", movable |-> TRUE, loc |-> SourceLoc, text |-> FALSE],
     [name |-> "b", ext |-> ".zip", mime |-> "application/octet-stream", content |-> 1,
      state |-> "ok", movable |-> TRUE, loc |-> SourceLoc, text |-> FALSE],
     [name |-> "b", ext |-> ".txt", mime |-> "text/plain", content |-> 2,
      state |-> "gone", movable |-> TRUE, loc |-> SourceLoc, text |-> TRUE],
     [name |-> "c", ext |-> ".xyz", mime |-> "application/octet-stream", content |-> 1,
      state |-> "ok", movable |-> FALSE, loc |-> SourceLoc, text |-> FALSE]}

\* FileUtils.list_files(directory): os.walk yields nothing, and raises
\* nothing, for a directory that does not exist
WalkFiles(exists, files) == IF exists THEN files ELSE <<>>

\* FileUtils.create_directory: True, or False when os.makedirs raises; the
\* callers in organize_files ignore the value
create_directory(creatable) == creatable

\* os.path.exists(destination)
Occupied(d, category, p, stamp) ==
    \E q \in DOMAIN d :
        /\ d[q].state = "ok"
        /\ d[q].loc = [category |-> category, stamp |-> stamp]
        /\ d[q].name = d[p].name /\ d[q].ext = d[p].ext

\* a move that reports failure although the file has reached the category
\* directory
safe_move_file_leaves_copy(d, p, category, dest_ok, t, replaces) ==
    [moved |-> FALSE,
     disk |-> [d EXCEPT ![p].loc = [category |-> category, stamp |-> 0]]]

\* FileUtils.safe_move_file(source, destination): [moved, disk].
\* dest_ok: os.makedirs of the category directory succeeds; t: the second
\* datetime.now() gives; replaces: shutil.move onto an existing file
\* replaces it (os.rename on POSIX) rather than raising (Windows).
safe_move_file(d, p, category, dest_ok, t, replaces) ==
    IF ~dest_ok THEN [moved |-> FALSE, disk |-> d]
    ELSE LET stamp == IF Occupied(d, category, p, 0) THEN t + 1 ELSE 0
             taken == Occupied(d, category, p, stamp)
             target == [category |-> category, stamp |-> stamp]
         IN  IF ~d[p].movable \/ (taken /\ ~replaces)
             THEN [moved |-> FALSE, disk |-> d]
             ELSE [moved |-> TRUE,
                   disk |-> [q \in DOMAIN d |->
                               IF q = p THEN [d[q] EXCEPT !.loc = target]
                               ELSE IF d[q].state = "ok" /\ d[q].loc = target
                                       /\ d[q].name = d[p].name
                                       /\ d[q].ext = d[p].ext
                               THEN [d[q] EXCEPT !.state = "gone"]
                               ELSE d[q]]]

\* the files under the destination directory, as list_files finds them
DestFiles(d, dest_exists) ==
    WalkFiles(dest_exists,
              SelectSeq([i \in DOMAIN d |-> i],
                        LAMBDA q : d[q].loc # SourceLoc /\ d[q].state = "ok"))

NoStats == [total_files |-> 0, organized_files |-> 0, duplicates_found |-> 0,
            duplicates_removed |-> 0, errors |-> 0]

\* what organize_files has produced other than its stats: nothing yet
\* ("None") or the exception that left it
Outcome(exception) == [exception |-> exception]

InitOrganize ==
    /\ args \in [op : {"organize_files"}, source_exists : BOOLEAN,
                 dest_creatable : BOOLEAN, detect_duplicates : BOOLEAN]
    /\ disk \in IF args.source_exists
                THEN UNION {[1..n -> Profiles] : n \in 0..NumSource}
                ELSE {<<>>}
    /\ pc = "start"
    /\ locals = [files |-> <<>>, i |-> 1, stats |-> NoStats, dest_exists |-> FALSE,
                 now |-> 0, classified |-> {}, failed |-> {}, log_failed |-> FALSE,
                 detected |-> FALSE, duplicates |-> <<>>, gi |-> 1,
                 removed_files |-> <<>>]
    /\ ret = Outcome("None")
    /\ oplog = <<>>
    /\ file_metadata = {}

Organizing == args.op = "organize_files"

\* create_directory(dest_dir), files = list_files(source_dir),
\* stats['total_files'] = len(files)
OrganizeStart ==
    /\ Organizing /\ pc = "start"
    /\ LET files == WalkFiles(args.source_exists, [i \in DOMAIN disk |-> i])
       IN  locals' = [locals EXCEPT
                        !.dest_exists = create_directory(args.dest_creatable),
                        !.files = files,
                        !.stats.total_files = Len(files)]
    /\ pc' = "organize"
    /\ UNCHANGED <<disk, args, ret, oplog, file_metadata>>

\* the body of the try block of one iteration, before its log_operation
\* call: st = [disk, stats, failed, classified], the file p, and what is to
\* be logged.  classify_file raises for a file that has vanished.
TryOrganize(st, p, dest_ok, t, replaces) ==
    IF st.disk[p].state = "gone"
    THEN [st EXCEPT !.failed = @ \cup {p}, !.outcome = "raised"]
    ELSE LET category == ClassifyByType(<<>>, st.disk, p, TRUE).classification.category
             category_dir == create_directory(dest_ok)
             mv == safe_move_file(st.disk, p, category, category_dir, t, replaces)
         IN  IF mv.moved
             THEN [st EXCEPT !.disk = mv.disk,
                             !.classified = @ \cup {p},
                             !.stats.organized_files = @ + 1,
                             !.outcome = "success"]
             ELSE [st EXCEPT !.disk = mv.disk,
                             !.classified = @ \cup {p},
                             !.failed = @ \cup {p},
                             !.stats.errors = @ + 1,
                             !.outcome = "failure"]

\* one iteration of "for file_path in files".  A write of the audit log may
\* fail: write_fails for the log_operation call of the try block, which is
\* then handled by "except Exception" like any other exception of the
\* block, and handler_fails for the call of the handler itself, whose
\* exception leaves organize_files.  The clock is read only to name a file
\* whose destination exists, so a later second t is drawn only when the
\* file is stored under it.
OrganizeOneFile ==
    /\ Organizing /\ pc = "organize"
    /\ locals.i <= Len(locals.files)
    /\ \E t \in {u \in Seconds : u >= locals.now}, replaces \in BOOLEAN,
          write_fails \in BOOLEAN, handler_fails \in BOOLEAN :
          LET p == locals.files[locals.i]
              tried == TryOrganize([disk |-> disk, stats |-> locals.stats,
                                    failed |-> locals.failed,
                                    classified |-> locals.classified,
                                    outcome |-> "none"],
                                   p, args.dest_creatable, t, replaces)
              handled == tried.outcome = "raised" \/ write_fails
              stats == IF handled THEN [tried.stats EXCEPT !.errors = @ + 1]
                       ELSE tried.stats
          IN  /\ (t > locals.now => tried.disk[p].loc.stamp = t + 1)
              /\ (tried.outcome = "raised" => ~write_fails)
              /\ (~handled => ~handler_fails)
              /\ disk' = tried.disk
              /\ oplog' = IF handled /\ handler_fails THEN oplog
                          ELSE log_operation(oplog, "file_organization", p,
                                   IF handled THEN "failure" ELSE tried.outcome,
                                   IF handled THEN "exception" ELSE "")
              /\ locals' = [locals EXCEPT
                              !.i = @ + 1,
                              !.now = t,
                              !.classified = tried.classified,
                              !.failed = tried.failed,
                              !.stats = stats,
                              !.log_failed = @ \/ write_fails \/ handler_fails]
              /\ IF handled /\ handler_fails
                 THEN pc' = "raised" /\ ret' = Outcome("OperationalError")
                 ELSE UNCHANGED <<pc, ret>>
    /\ UNCHANGED <<args, file_metadata>>

\* a loop that is left with its last file unprocessed
LoopDoneBeforeLast == locals.i >= Len(locals.files)

\* "for file_path in files" is exhausted
LoopDone == locals.i > Len(locals.files)

\* the loop is over and detect_duplicates is False: return stats
OrganizeReturnUndetected ==
    /\ Organizing /\ pc = "organize"
    /\ LoopDone
    /\ ~args.detect_duplicates
    /\ pc' = "returned"
    /\ ret' = locals.stats
    /\ UNCHANGED <<disk, args, locals, oplog, file_metadata>>

\* duplicates = find_duplicates(dest_dir); duplicates_found; return stats
\* when there is none
OrganizeDetect ==
    /\ Organizing /\ pc = "organize"
    /\ LoopDone
    /\ args.detect_duplicates
    /\ LET st == HashFiles([hash_map |-> <<>>, log |-> oplog, meta |-> file_metadata],
                           disk, DestFiles(disk, locals.dest_exists), "md5")
           duplicates == FilterDuplicates(st.hash_map)
           stats == [locals.stats EXCEPT
                       !.duplicates_found = total_duplicates(duplicates)]
       IN  /\ oplog' = st.log
           /\ file_metadata' = st.meta
           /\ locals' = [locals EXCEPT !.duplicates = duplicates, !.stats = stats,
                                       !.detected = TRUE]
           /\ IF duplicates = <<>>
              THEN pc' = "returned" /\ ret' = stats
              ELSE pc' = "remove" /\ UNCHANGED ret
    /\ UNCHANGED <<disk, args>>

InOrganizeRemoval ==
    /\ Organizing /\ pc = "remove"
    /\ locals.gi <= Len(locals.duplicates)

\* remove_duplicates(duplicates), keep_strategy 'newest': one group is
\* sorted by modification time, its first file kept and the rest removed
OrganizeRemoveGroup ==
    /\ InOrganizeRemoval
    /\ LET file_paths == locals.duplicates[locals.gi].paths
       IN  \E key \in [Range(file_paths) -> MTimes],
              locked \in SUBSET Range(file_paths) :
              LET sorted_files == sorted(file_paths, key, Reverse("newest"))
                  keep_file == sorted_files[1]
                  st == RemoveRest([disk |-> disk,
                                    removed_files |-> locals.removed_files,
                                    log |-> oplog],
                                   Tail(sorted_files), keep_file, locked)
              IN  /\ locked \subseteq Range(Tail(sorted_files))
                  /\ disk' = st.disk
                  /\ oplog' = st.log
                  /\ locals' = [locals EXCEPT !.gi = @ + 1,
                                              !.removed_files = st.removed_files]
    /\ UNCHANGED <<args, pc, ret, file_metadata>>

\* os.path.getmtime raises for a member that has vanished: the OSError
\* leaves remove_duplicates and organize_files
OrganizeRemoveRaises ==
    /\ InOrganizeRemoval
    /\ \E missing \in Range(locals.duplicates[locals.gi].paths) :
          disk' = [disk EXCEPT ![missing].state = "gone"]
    /\ pc' = "raised"
    /\ ret' = Outcome("OSError")
    /\ UNCHANGED <<args, locals, oplog, file_metadata>>

\* stats['duplicates_removed'] = len(removed); return stats
OrganizeReturn ==
    /\ Organizing /\ pc = "remove"
    /\ locals.gi > Len(locals.duplicates)
    /\ LET stats == [locals.stats EXCEPT
                       !.duplicates_removed = Len(locals.removed_files)]
       IN  /\ locals' = [locals EXCEPT !.stats = stats]
           /\ ret' = stats
    /\ pc' = "returned"
    /\ UNCHANGED <<disk, args, oplog, file_metadata>>

organize_files ==
    \/ OrganizeStart
    \/ OrganizeOneFile
    \/ OrganizeReturnUndetected
    \/ OrganizeDetect
    \/ OrganizeRemoveGroup
    \/ OrganizeRemoveRaises
    \/ OrganizeReturn

NextOrganize == organize_files

SpecOrganize == InitOrganize /\ [][NextOrganize]_vars

\* organize_files is one call running in one thread: once started it keeps
\* taking steps until it returns or raises
SpecOrganizeFair == SpecOrganize /\ WF_vars(NextOrganize)

-----------------------------------------------------------------------------
(* Claims about organize_files *)

OrganizeEnded == Organizing /\ pc \in {"returned", "raised"}

\* the source directory is missing or the destination cannot be created
RunLevelError == ~args.source_exists \/ ~args.dest_creatable

\* C20: when the source directory is missing or the destination directory
\* cannot be created, organize_files fails: the run is not reported as
\* completed (no stats are returned), and no file is classified, moved or
\* deleted.
C20_RunLevelErrorFails ==
    (OrganizeEnded /\ RunLevelError) =>
        /\ pc = "raised"
        /\ locals.classified = {}
        /\ \A p \in DOMAIN disk : disk[p].loc = SourceLoc
        /\ locals.removed_files = <<>>

C22_MovedFilesKept ==
    (Organizing /\ pc = "organize") =>
        \A p \in DOMAIN disk :
            disk[p].loc # SourceLoc => disk[p].state = "ok"

\* the phases while the run is under way: detection starts after the loop
\* and only when asked for, removal only after a detection that found a
\* group
PhasesOrdered ==
    Organizing =>
        /\ (locals.detected =>
               /\ args.detect_duplicates
               /\ locals.i = Len(locals.files) + 1)
        /\ ((pc = "remove" \/ locals.gi > 1 \/ locals.removed_files # <<>>) =>
               /\ locals.detected
               /\ locals.duplicates # <<>>)
        /\ (pc = "returned" /\ args.detect_duplicates => locals.detected)

\* once detection has started no file is classified or moved
NothingOrganizedAfterDetection ==
    (Organizing /\ locals.detected) =>
        /\ locals'.classified = locals.classified
        /\ locals'.failed = locals.failed
        /\ locals'.i = locals.i
        /\ \A p \in DOMAIN disk : disk'[p].loc = disk[p].loc

\* C24: organize_files runs its phases in a fixed order and ends: every
\* file is classified and moved before duplicate detection starts,
\* detection happens only when detect_duplicates is set, removal only after
\* a detection that found a group, nothing is classified or moved once
\* detection has started, and the run reaches a terminal state.
C24_PhasesInOrder ==
    /\ []PhasesOrdered
    /\ [][NothingOrganizedAfterDetection]_vars
    /\ <>OrganizeEnded

\* a run that went through every phase: a file organized, duplicates
\* detected, one of them removed, stats returned
C24_Witness ==
    /\ Organizing /\ pc = "returned"
    /\ locals.detected
    /\ locals.removed_files # <<>>
    /\ locals.classified # {}

\* C25: when organize_files returns, organized_files + errors ==
\* total_files, also when a write of the audit log fails after a successful
\* move, and duplicates_removed <= duplicates_found.  Stated for the runs
\* in which every file was classified and moved.
C25_StatsAccountForEachFile ==
    (Organizing /\ pc = "returned" /\ locals.failed = {}) =>
        /\ ret.organized_files + ret.errors = ret.total_files
        /\ ret.duplicates_removed <= ret.duplicates_found

-----------------------------------------------------------------------------
(* DuplicateDetector.compute_similarity (src/duplicate_detector.py)        *)

\* the greatest number of hundredths the cosine of two arrays reaches
CosineHundredths(a, b) ==
    CHOOSE t \in -100..100 :
        /\ CosineAtLeast(a, b, t)
        /\ \A u \in (t + 1)..100 : ~CosineAtLeast(a, b, u)

\* compute_embeddings(text): the text read is used as a path, so
\* compute_hash(text) raises when it names no file
EmbedText(d, content, depth) ==
    LET target == SpelledPath(content)
    IN  IF target = 0 THEN Raised ELSE compute_embeddings(d, target, depth)

\* compute_similarity(file1, file2), in hundredths: every exception
\* (open() failing, compute_hash(text) raising, .reshape on a str or on
\* None) ends in "return 0.0"
compute_similarity(d, file1, file2) ==
    IF d[file1].state # "ok" \/ d[file2].state # "ok" THEN 0
    ELSE LET embedding1 == EmbedText(d, d[file1].content, NumCompared)
             embedding2 == EmbedText(d, d[file2].content, NumCompared)
         IN  IF embedding1.kind = "vector" /\ embedding2.kind = "vector"
             THEN CosineHundredths(embedding1.value, embedding2.value)
             ELSE 0

InitSimilarity ==
    /\ disk \in [ComparedPaths ->
                   [content : Contents \cup {0}, state : {"ok"}, text : BOOLEAN]
                   \cup [content : {1}, state : {"unreadable"}, text : BOOLEAN]]
    /\ args \in [op : {"compute_similarity"},
                 file1 : ComparedPaths, file2 : ComparedPaths]
    /\ pc = "start"
    /\ locals = <<>>
    /\ ret = None
    /\ oplog = <<>>
    /\ file_metadata = {}

ComputeSimilarity ==
    /\ pc = "start"
    /\ args.op = "compute_similarity"
    /\ ret' = compute_similarity(disk, args.file1, args.file2)
    /\ pc' = "returned"
    /\ UNCHANGED <<disk, args, locals, oplog, file_metadata>>

NextSimilarity == ComputeSimilarity

SpecSimilarity == InitSimilarity /\ [][NextSimilarity]_vars

\* C23: similarity is reflexive: for every readable file f,
\* compute_similarity(f, f) returns 1.0.
C23_SimilarityReflexive ==
    (args.op = "compute_similarity" /\ pc = "returned"
        /\ args.file1 = args.file2 /\ Readable(args.file1)) => ret = 100


-----------------------------------------------------------------------------
(* The search of the graphical interface (src/gui.py): the main thread     *)
(* with its button and its polling of the queue, and the worker threads    *)
(* that search_duplicates runs in.  locals holds the interface (ui), the   *)
(* queue, the workers and, as history, every message ever put (sent).      *)

NumCollected == 12   \* files the search can find under the directory
MaxSearches == 2     \* searches started in one behaviour
batch_size == 10

\* positions the Scale of the threshold is left at, in hundredths: its
\* lower end and the default
ScaleValues == {50, 95}

CollectedPaths(d) == [i \in DOMAIN d |-> i]

\* a message of the queue; search is history (the search that put it)
Message(search, type, data) == [search |-> search, type |-> type, data |-> data]

TerminalTypes == {"complete", "error"}

\* search_completed(): the button is enabled again
search_completed(ui) ==
    [ui EXCEPT !.progress_value = ui.progress_maximum,
               !.search_button = "normal"]

\* one branch of check_queue for a message other than "error"
HandleMessage(ui, m) ==
    IF m.type = "progress_max" THEN [ui EXCEPT !.progress_maximum = m.data[1]]
    ELSE IF m.type = "progress" THEN [ui EXCEPT !.progress_value = m.data[1]]
    ELSE IF m.type = "result" THEN [ui EXCEPT !.tree = Append(@, m.data)]
    ELSE IF m.type = "complete" THEN search_completed(ui)
    ELSE ui

\* "while True: self.queue.get_nowait()" up to queue.Empty, or up to an
\* "error" message, where messagebox.showerror blocks the loop
RECURSIVE DrainQueue(_, _)
DrainQueue(ui, q) ==
    IF q = <<>> THEN [ui |-> ui, queue |-> q, dialog |-> FALSE]
    ELSE IF Head(q).type = "error"
         THEN [ui |-> ui, queue |-> Tail(q), dialog |-> TRUE]
         ELSE DrainQueue(HandleMessage(ui, Head(q)), Tail(q))

\* DuplicateDetector.find_duplicates(batch, threshold) of
\* src/duplicate_detector.py as a function: the pairs, or Raised
detector_find_duplicates(d, file_paths, threshold) ==
    LET emb == [p \in Range(file_paths) |-> compute_embeddings(d, p, NumCompared)]
        file_list == SelectSeq(file_paths, LAMBDA p : emb[p] # NoSignature)
    IN  IF \E p \in Range(file_paths) : emb[p] = Raised THEN Raised
        ELSE [kind |-> "pairs", value |-> ScanFileList(file_list, emb, threshold)]

\* a batch that is the whole list
BatchWholeList(file_paths, i) == file_paths

\* batch = file_paths[i:i + batch_size]
Batch(file_paths, i) ==
    SubSeq(file_paths, i + 1, Min(i + batch_size, Len(file_paths)))

\* the messages of one pass of the batch loop before find_duplicates
BatchHeader(w, i, total) ==
    <<Message(w, "progress", <<i>>),
      Message(w, "status", <<i + 1, Min(i + batch_size, total), total>>)>>

\* queue.put(("result", (file1, file2, similarity))) for every pair
BatchResults(w, d, duplicates) ==
    [k \in DOMAIN duplicates |->
        Message(w, "result",
                <<duplicates[k][1], duplicates[k][2],
                  compute_similarity(d, duplicates[k][1], duplicates[k][2])>>)]

\* an empty listing that does not end the thread
NoFilesFoundFallsThrough(worker, w) ==
    [worker |-> [worker EXCEPT !.pc = "batch"],
     put |-> <<Message(w, "error", <<>>)>>]

\* "if not file_paths": put the error and return
NoFilesFound(worker, w) ==
    [worker |-> [worker EXCEPT !.pc = "done"],
     put |-> <<Message(w, "error", <<>>)>>]

NoWorker == [pc |-> "unstarted", file_paths |-> <<>>, i |-> 0]

InitGui ==
    /\ \E n \in 0..NumCollected, same \in SUBSET (1..NumCollected) :
          /\ same \subseteq 1..n
          /\ Cardinality(same) \in {0, 2}
          /\ disk = [p \in 1..n |->
                       [content |-> IF p \in same THEN 1 ELSE p + 1,
                        state |-> "ok", text |-> FALSE]]
    /\ args \in [op : {"gui"}, threshold : ScaleValues]
    /\ pc = "idle"
    /\ locals = [dir_path |-> "",
                 ui |-> [search_button |-> "normal", tree |-> <<>>,
                         progress_value |-> 0, progress_maximum |-> 100],
                 queue |-> <<>>,
                 sent |-> <<>>,
                 searches |-> 0,
                 workers |-> [w \in 1..MaxSearches |-> NoWorker]]
    /\ ret = None
    /\ oplog = <<>>
    /\ file_metadata = {}

InGui == args.op = "gui"

\* browse_directory: the user picks a directory
BrowseDirectory ==
    /\ InGui /\ pc = "idle"
    /\ locals.dir_path = ""
    /\ locals' = [locals EXCEPT !.dir_path = "dir"]
    /\ UNCHANGED <<disk, args, pc, ret, oplog, file_metadata>>

\* start_search, the command of the search button: a disabled button does
\* not run its command
StartSearch ==
    /\ InGui /\ pc = "idle"
    /\ locals.ui.search_button = "normal"
    /\ locals.searches < MaxSearches
    /\ IF locals.dir_path = ""
       THEN /\ pc' = "select_directory_dialog"
            /\ UNCHANGED locals
       ELSE /\ locals' = [locals EXCEPT
                            !.ui.tree = <<>>,
                            !.ui.search_button = "disabled",
                            !.ui.progress_value = 0,
                            !.searches = @ + 1,
                            !.workers[locals.searches + 1].pc = "collect"]
            /\ UNCHANGED pc
    /\ UNCHANGED <<disk, args, ret, oplog, file_metadata>>

\* the worker puts messages: on the queue, and on record
Put(w, worker, messages) ==
    locals' = [locals EXCEPT !.workers[w] = worker,
                             !.queue = @ \o messages,
                             !.sent = @ \o messages]

\* search_duplicates up to the batch loop: the listing, which may raise
WorkerCollect(w) ==
    /\ InGui /\ locals.workers[w].pc = "collect"
    /\ \E listing_raises \in BOOLEAN :
          LET worker == locals.workers[w]
              file_paths == CollectedPaths(disk)
          IN  IF listing_raises
              THEN Put(w, [worker EXCEPT !.pc = "done"],
                       <<Message(w, "error", <<>>)>>)
              ELSE IF file_paths = <<>>
              THEN LET out == NoFilesFound(worker, w)
                   IN  Put(w, out.worker, out.put)
              ELSE Put(w, [worker EXCEPT !.pc = "batch",
                                         !.file_paths = file_paths],
                       <<Message(w, "progress_max", <<Len(file_paths)>>)>>)
    /\ UNCHANGED <<disk, args, pc, ret, oplog, file_metadata>>

\* one pass of "for i in range(0, total_files, batch_size)"; a file of the
\* batch may be unreadable while it is searched (d is the disk as the pass
\* finds it), and then find_duplicates raises
WorkerBatch(w) ==
    /\ InGui /\ locals.workers[w].pc = "batch"
    /\ locals.workers[w].i < Len(locals.workers[w].file_paths)
    /\ LET worker == locals.workers[w]
           total == Len(worker.file_paths)
           batch == Batch(worker.file_paths, worker.i)
       IN  \E d \in {disk, [disk EXCEPT ![batch[1]].state = "unreadable"]} :
              LET duplicates == detector_find_duplicates(d, batch, args.threshold)
              IN  /\ UNCHANGED disk
                  /\ IF duplicates = Raised
                     THEN Put(w, [worker EXCEPT !.pc = "done"],
                              BatchHeader(w, worker.i, total)
                                  \o <<Message(w, "error", <<>>)>>)
                     ELSE Put(w, [worker EXCEPT !.i = @ + batch_size],
                              BatchHeader(w, worker.i, total)
                                  \o BatchResults(w, d, duplicates.value))
    /\ UNCHANGED <<args, pc, ret, oplog, file_metadata>>

\* the loop is over: queue.put(("complete", None)), or, after an empty
\* listing that did not return, the same with no batch run
WorkerComplete(w) ==
    /\ InGui /\ locals.workers[w].pc = "batch"
    /\ locals.workers[w].i >= Len(locals.workers[w].file_paths)
    /\ Put(w, [locals.workers[w] EXCEPT !.pc = "done"],
           <<Message(w, "complete", <<>>)>>)
    /\ UNCHANGED <<disk, args, pc, ret, oplog, file_metadata>>

search_duplicates(w) == WorkerCollect(w) \/ WorkerBatch(w) \/ WorkerComplete(w)

\* check_queue, run by the timer of the main thread every 100 ms
CheckQueue ==
    /\ InGui /\ pc = "idle"
    /\ locals.queue # <<>>
    /\ LET drained == DrainQueue(locals.ui, locals.queue)
       IN  /\ locals' = [locals EXCEPT !.ui = drained.ui, !.queue = drained.queue]
           /\ pc' = IF drained.dialog THEN "error_dialog" ELSE "idle"
    /\ UNCHANGED <<disk, args, ret, oplog, file_metadata>>

\* the user closes the message box: after "Please select a directory"
\* start_search returns; after an "error" message check_queue calls
\* search_completed and goes on with the queue
DismissDialog ==
    /\ InGui
    /\ \/ /\ pc = "select_directory_dialog"
          /\ pc' = "idle"
          /\ UNCHANGED locals
       \/ /\ pc = "error_dialog"
          /\ LET drained == DrainQueue(search_completed(locals.ui), locals.queue)
             IN  /\ locals' = [locals EXCEPT !.ui = drained.ui,
                                             !.queue = drained.queue]
                 /\ pc' = IF drained.dialog THEN "error_dialog" ELSE "idle"
    /\ UNCHANGED <<disk, args, ret, oplog, file_metadata>>

NextGui ==
    \/ BrowseDirectory
    \/ StartSearch
    \/ \E w \in 1..MaxSearches : search_duplicates(w)
    \/ CheckQueue
    \/ DismissDialog

SpecGui == InitGui /\ [][NextGui]_vars

\* a started thread runs, the timer keeps calling check_queue, and the user
\* closes a message box
SpecGuiFair ==
    /\ SpecGui
    /\ \A w \in 1..MaxSearches : WF_vars(search_duplicates(w))
    /\ WF_vars(CheckQueue)
    /\ WF_vars(DismissDialog)

-----------------------------------------------------------------------------
(* Claims about the search of the graphical interface *)

\* the positions in sent of the messages the search w has put
SentBy(w) == {k \in DOMAIN locals.sent : locals.sent[k].search = w}

TerminalsOf(w) == {k \in SentBy(w) : locals.sent[k].type \in TerminalTypes}

Running(w) == locals.workers[w].pc \in {"collect", "batch"}

\* every terminal message is the last message of its search, a finished
\* worker has put exactly one, a running worker none, and at most one
\* worker runs
OneTerminalMessageLast ==
    InGui =>
        /\ \A w \in 1..MaxSearches :
              /\ \A k \in TerminalsOf(w) : \A j \in SentBy(w) : j <= k
              /\ (locals.workers[w].pc = "done" => Cardinality(TerminalsOf(w)) = 1)
              /\ (locals.workers[w].pc # "done" => TerminalsOf(w) = {})
              /\ (locals.workers[w].pc = "unstarted" <=> w > locals.searches)
        /\ Cardinality({w \in 1..MaxSearches : Running(w)}) <= 1
        /\ (\E w \in 1..MaxSearches : Running(w)) =>
               locals.ui.search_button = "disabled"

BatchOf(file_paths, p) ==
    ((CHOOSE i \in DOMAIN file_paths : file_paths[i] = p) - 1) \div batch_size

\* the pairs reported by the search w
Reported(w) ==
    {<<locals.sent[k].data[1], locals.sent[k].data[2]>> :
        k \in {j \in SentBy(w) : locals.sent[j].type = "result"}}

\* C27: in the search of the interface files are compared only within
\* batches of 10 consecutive collected paths: both files of every reported
\* pair are in one batch, also when files of different batches are byte
\* for byte identical.
C27_PairsWithinBatches ==
    InGui =>
        \A w \in 1..MaxSearches : \A pair \in Reported(w) :
            BatchOf(locals.workers[w].file_paths, pair[1])
                = BatchOf(locals.workers[w].file_paths, pair[2])

\* a search that completed over two identical files of different batches
\* and reported nothing, after a search that reported a pair
C27_Witness ==
    /\ InGui /\ locals.workers[1].pc = "done"
    /\ \E k \in SentBy(1) : locals.sent[k].type = "complete"
    /\ Reported(1) = {}
    /\ \E p \in DOMAIN disk : \E q \in DOMAIN disk :
          /\ p < q
          /\ disk[p].content = disk[q].content
          /\ BatchOf(locals.workers[1].file_paths, p)
                # BatchOf(locals.workers[1].file_paths, q)

=============================================================================
